---- MODULE Spec2Model ----
(***************************************************************************)
(* whitesource-api-extension: the websocket session of component.py        *)
(* (Component.on_websocket) and the shared agent binary of util.py         *)
(* (update_or_download_agent, get_wss_agent_hardlink,                      *)
(* pull_latest_wss_agent).                                                 *)
(*                                                                         *)
(* File names are sequences of tokens: "a.gz.tar" is <<"a",".gz",".tar">>, *)
(* so that str.endswith('.tar') and str.replace('.tar', '') are computed   *)
(* as Python computes them.  A tar archive is the sequence of its members; *)
(* a member carries the exception that reading or extracting it raises.    *)
(***************************************************************************)
EXTENDS Integers, Sequences, FiniteSets, TLC

\* ---------------------------------------------------------------- bounds
\* largest metadata.length a client announces
MaxLen == 2
\* longest payload message a client sends (longer than MaxLen: overshoot)
MaxChunk == 3
\* most members of one inner archive
MaxInner == 2
\* most chunks res.iter_content yields for one download
MaxDownload == 2
\* most pull_latest_wss_agent calls of one run (threads and blocking calls)
MaxFetches == 2

\* the sessions the model holds state for, and those Spec runs
AllSessions == {1, 2}
Sessions == {1}

\* ------------------------------------------------------- control messages
\* What json.loads and dacite.from_dict make of a control message.
MsgKinds == {"valid", "notjson", "notobject", "missing", "wrongtype"}

NoMeta == [kind |-> "none", length |-> 0, chunkSize |-> 0]

MetadataMsgs ==
    [kind : {"valid"}, length : 0..MaxLen, chunkSize : 0..(MaxLen + 1)]
        \cup [kind : MsgKinds \ {"valid"}, length : {0}, chunkSize : {0}]

ConfigMsgs == MsgKinds

\* The exception json.loads / dacite.from_dict raise for a message, or "ok".
DecodeError(kind) ==
    CASE kind = "valid" -> "ok"
      [] kind = "notjson" -> "JSONDecodeError"
      [] kind = "missing" -> "MissingValueError"
      [] kind = "wrongtype" -> "WrongTypeError"
      [] kind = "notobject" -> "TypeError"

\* except (json.decoder.JSONDecodeError, dacite.exceptions.MissingValueError)
ContractCaught(exc) == exc \in {"JSONDecodeError", "MissingValueError"}

\* the check of line 68 off by one
ChunkTooBigOffByOne(m) == m.chunkSize > m.length + 1

\* if metadata.chunkSize > metadata.length
ChunkTooBig(m) == m.chunkSize > m.length

\* ---------------------------------------------------------------- archives
TAR == ".tar"

\* file.endswith('.tar')
EndsWithTar(name) == Len(name) > 0 /\ name[Len(name)] = TAR

\* file.replace('.tar', ''): every occurrence goes, not only the last
ReplaceTar(name) == SelectSeq(name, LAMBDA t : t # TAR)

\* faults of one member: raised by f.next() (ReadError) or by f.extract()
MemberFaults == {"ok", "StreamError", "KeyError", "ReadError"}

RECURSIVE SeqsUpTo(_, _)
SeqsUpTo(S, n) ==
    IF n = 0 THEN {<<>>}
    ELSE LET shorter == SeqsUpTo(S, n - 1)
         IN shorter \cup {Append(q, x) : q \in {r \in shorter : Len(r) = n - 1}, x \in S}

InnerArchives == SeqsUpTo(MemberFaults, MaxInner)

\* the top-level names of an outer archive: "a.gz.tar", "a.tar.gz.tar" and
\* a file that is no inner archive, "b"
LayerA == <<"a", ".gz", TAR>>
LayerB == <<"a", TAR, ".gz", TAR>>
TopTarNames == {LayerA, LayerB}
LooseName == <<"b">>

\* An outer archive: the fault reading it raises, and its top-level members:
\* inner archives by name, and whether a loose file comes with them.
OuterFaults == {"ok", "ReadError", "UnicodeDecodeError", "KeyError"}

NoPayload == [fault |-> "none", tars |-> <<>>, loose |-> FALSE]

ValidOuters ==
    UNION {[fault : {"ok"}, tars : [N -> InnerArchives], loose : BOOLEAN]
              : N \in SUBSET TopTarNames}

BadOuters ==
    [fault : OuterFaults \ {"ok"}, tars : {<<>>}, loose : {FALSE}]

Outers == ValidOuters \cup BadOuters

\* What the loop over one inner archive does (lines 102-121): members are
\* taken in order; the first member that raises ends the loop, whatever it
\* raises.  FirstFault is that member's position, or Len + 1.
FirstFault(members) ==
    LET bad == {i \in 1..Len(members) : members[i] # "ok"}
    IN IF bad = {} THEN Len(members) + 1
       ELSE CHOOSE i \in bad : \A j \in bad : i <= j

\* the exception the loop over the archive ends with, or "ok"
Raised(members) ==
    IF FirstFault(members) > Len(members) THEN "ok"
    ELSE members[FirstFault(members)]

\* the members f.extract() has written when the loop is left
Extracted(members) == 1..(FirstFault(members) - 1)

\* f.extract() makes the layer directory before it writes (or fails to
\* write) a member, so the directory exists once extract() was called;
\* f.next() raising ReadError comes before any extract().
DirTouched(members) ==
    Extracted(members) # {} \/ Raised(members) \in {"StreamError", "KeyError"}

\* the except clause of line 113 without KeyError
InnerCaughtStreamOnly(exc) == exc = "StreamError"

\* except (tarfile.StreamError, KeyError) around the member loop
InnerCaught(exc) == exc \in {"StreamError", "KeyError"}

\* except (tarfile.ReadError, UnicodeDecodeError, tarfile.InvalidHeaderError)
BinaryCaught(exc) ==
    exc \in {"ReadError", "UnicodeDecodeError", "InvalidHeaderError"}

\* ------------------------------------------------------------ tool result
\* the largest exit status of the agent the model draws
MaxExit == 12

ExitCodes == {0 - 1, 0, 1, MaxExit}
Outs == {<<>>, <<"o">>}
Errs == {<<>>, <<"e">>}

\* subprocess.CompletedProcess of run_whitesource_scan
Results == [returncode : ExitCodes, stdout : Outs, stderr : Errs]
NoResult == [returncode |-> 0, stdout |-> <<>>, stderr |-> <<>>]

Digit(d) ==
    CASE d = 0 -> "0" [] d = 1 -> "1" [] d = 2 -> "2" [] d = 3 -> "3"
      [] d = 4 -> "4" [] d = 5 -> "5" [] d = 6 -> "6" [] d = 7 -> "7"
      [] d = 8 -> "8" [] d = 9 -> "9"

RECURSIVE Digits(_)
Digits(n) == IF n < 10 THEN <<Digit(n)>> ELSE Append(Digits(n \div 10), Digit(n % 10))

\* str(result.returncode)
Str(n) == IF n < 0 THEN <<"-">> \o Digits(0 - n) ELSE Digits(n)

\* the two outputs joined the other way round
AgentLogOutFirst(r) ==
    IF r.returncode = 0 THEN r.stdout ELSE r.stdout \o r.stderr

\* lines 145-149: the agent's log
AgentLog(r) ==
    IF r.returncode = 0 THEN r.stdout ELSE r.stderr \o r.stdout

\* _build_scan_result_response: the ScanResult of a CompletedProcess
BuildScanResult(successful, message) ==
    [successful |-> successful, message |-> message]

\* lines 151-154
ScanResultOf(r) == BuildScanResult(r.returncode = 0, AgentLog(r))

\* the exit code sent as the JSON document's first half
CodeMessageAsJson(r) == [type |-> "json", body |-> Str(r.returncode)]

\* the two messages of lines 156-157
CodeMessage(r) == [type |-> "text", body |-> Str(r.returncode)]
ResultMessage(r) ==
    [type |-> "json",
     body |-> <<IF ScanResultOf(r).successful THEN "true" ELSE "false">>
                 \o ScanResultOf(r).message]

\* ------------------------------------------------------------------ state
VARIABLES
    pc,          \* per session: its position in on_websocket
    metadata,    \* per session: the first control message (NoMeta before)
    config,      \* per session: the second control message ("none" before)
    received,    \* per session: the counter `received`
    staged,      \* per session: bytes written to tar_file
    requested,   \* per session: ws.receive_data() has been called
    turns,       \* per session: the turns of the receive loop so far, modulo 2
    closeCode,   \* per session: the code of ws.close(), or "none"
    fault,       \* per session: the exception that ended on_websocket, or "none"
    archiveFault, \* per session: the archive ("outer", "inner") whose reading
                 \* raised out of the loops of lines 95-121, and the exception
    sent,        \* per session: the messages of ws.send_text(), in order
    payload,     \* per session: the outer archive the staged bytes hold
    work,        \* per session: tmp_dir (exists, top-level files, layer directories)
    todo,        \* per session: what is left of os.listdir(tmp_dir)
    result,      \* per session: the CompletedProcess of the agent
    toolRuns,    \* per session: run_whitesource_scan has returned
    toolSaw,     \* per session: what the agent jar held when it was run
    link,        \* per session: the file wss_agent_hardlink_path names
    canonical,   \* the file paths.wss_agent_path names ({} when absent)
    stale,       \* the canonical file is older than 24 hours
    fetch,       \* per download: position in pull_latest_wss_agent, caller, bytes
    tmpPath      \* per download: tmp_file.name still names the file

vars ==
    <<pc, metadata, config, received, staged, requested, turns, closeCode, fault,
      archiveFault, sent, payload, work, todo, result, toolRuns, toolSaw,
      link, canonical, stale, fetch, tmpPath>>

sessionVars ==
    <<pc, metadata, config, received, staged, requested, turns, closeCode, fault,
      archiveFault, sent, payload, work, todo, result, toolRuns, toolSaw, link>>

cacheVars == <<canonical, stale, fetch, tmpPath>>

NoFault == [where |-> "none", exc |-> "none"]

\* tmp_dir before tempfile.TemporaryDirectory() and after its cleanup
NoWork == [exists |-> FALSE, files |-> {}, dirs |-> <<>>]
EmptyWork == [exists |-> TRUE, files |-> {}, dirs |-> <<>>]

\* the downloads of a run; file 0 is a jar left by an earlier run
Fetches == 1..MaxFetches
FileIds == 0..MaxFetches

IdleFetch == [pc |-> "idle", owner |-> 0, wrote |-> 0, disk |-> 0]

\* a file with every byte of its download on disk
Complete(f) ==
    f = 0 \/ (/\ fetch[f].pc \in {"moved", "done", "lost"}
              /\ fetch[f].disk = fetch[f].wrote)

\* ------------------------------------------------------------------- Init
\* The state once app.create()'s own update_or_download_agent thread has
\* finished: the jar is absent (its download failed), or present and fresh,
\* or present and older than 24 hours.
Init ==
    /\ pc = [s \in AllSessions |-> "AWAIT_METADATA"]
    /\ metadata = [s \in AllSessions |-> NoMeta]
    /\ config = [s \in AllSessions |-> "none"]
    /\ received = [s \in AllSessions |-> 0]
    /\ staged = [s \in AllSessions |-> 0]
    /\ requested = [s \in AllSessions |-> FALSE]
    /\ turns = [s \in AllSessions |-> 0]
    /\ closeCode = [s \in AllSessions |-> "none"]
    /\ fault = [s \in AllSessions |-> "none"]
    /\ archiveFault = [s \in AllSessions |-> NoFault]
    /\ sent = [s \in AllSessions |-> <<>>]
    /\ payload = [s \in AllSessions |-> NoPayload]
    /\ work = [s \in AllSessions |-> NoWork]
    /\ todo = [s \in AllSessions |-> {}]
    /\ result = [s \in AllSessions |-> NoResult]
    /\ toolRuns = [s \in AllSessions |-> FALSE]
    /\ toolSaw = [s \in AllSessions |-> "none"]
    /\ link = [s \in AllSessions |-> {}]
    /\ canonical \in {{}, {0}}
    /\ stale \in (IF canonical = {} THEN {FALSE} ELSE BOOLEAN)
    /\ fetch = [f \in Fetches |-> IdleFetch]
    /\ tmpPath = [f \in Fetches |-> FALSE]

\* ------------------------------------------------------- leaving a session
\* tmp_dir made with tempfile.mkdtemp() and removed before each `return`
\* and at the end, but not when an exception passes through
LeaveWorkspaceUnlessRaised(w, how) == IF how = "raise" THEN w ELSE NoWork

\* `with tempfile.TemporaryDirectory() as tmp_dir` (line 74): tmp_dir and all
\* it holds are removed however the block is left: by `return` after a
\* close, by an exception passing through, or at its end.
LeaveWorkspace(w, how) == NoWork

\* one directory shared by the sessions: the cleanup of one session takes
\* the files of all
FinishSharedDirectory(s, state, code, exc, how) ==
    /\ pc' = [pc EXCEPT ![s] = state]
    /\ closeCode' = [closeCode EXCEPT ![s] = code]
    /\ fault' = [fault EXCEPT ![s] = exc]
    /\ work' = [t \in AllSessions |-> LeaveWorkspace(work[t], how)]
    /\ link' = [t \in AllSessions |-> {}]

\* on_websocket ends: with ws.close(code) and return, with an exception
\* (WebSocketDisconnected is caught at line 159, any other passes on to the
\* caller), or at its end.
Finish(s, state, code, exc, how) ==
    /\ pc' = [pc EXCEPT ![s] = state]
    /\ closeCode' = [closeCode EXCEPT ![s] = code]
    /\ fault' = [fault EXCEPT ![s] = exc]
    /\ work' = [work EXCEPT ![s] = LeaveWorkspace(work[s], how)]
    /\ link' = [link EXCEPT ![s] =
                  IF LeaveWorkspace(work[s], how).exists THEN link[s] ELSE {}]

Close(s, code) == Finish(s, "ABORTED", code, "none", "return")
Raise(s, exc) == Finish(s, "ABORTED", "none", exc, "raise")

\* a disconnect answered with a close code
DisconnectedWithClose(s) ==
    Finish(s, "ABORTED", "CONTRACT_VIOLATION", "WebSocketDisconnected", "raise")

\* lines 159-160: except falcon.WebSocketDisconnected: return
Disconnected(s) == Raise(s, "WebSocketDisconnected")

\* a failed decode answered by waiting for the first message again
DecodeFailedRetry(s, exc) ==
    /\ pc' = [pc EXCEPT ![s] = "AWAIT_METADATA"]
    /\ UNCHANGED <<closeCode, fault, work, link>>

\* what a failed decode of a control message leads to (lines 60-64)
DecodeFailed(s, exc) ==
    IF ContractCaught(exc) THEN Close(s, "CONTRACT_VIOLATION") ELSE Raise(s, exc)

\* --------------------------------------------------------- control messages
\* lines 48-52: ws.receive_text(), json.loads, dacite.from_dict
RecvMetadata(s, metas) ==
    /\ pc[s] = "AWAIT_METADATA"
    /\ \/ /\ Disconnected(s)
          /\ UNCHANGED metadata
       \/ \E m \in metas :
            /\ metadata' = [metadata EXCEPT ![s] = m]
            /\ IF DecodeError(m.kind) = "ok"
               THEN /\ pc' = [pc EXCEPT ![s] = "AWAIT_CONFIG"]
                    /\ UNCHANGED <<closeCode, fault, work, link>>
               ELSE DecodeFailed(s, DecodeError(m.kind))
    /\ UNCHANGED <<config, received, staged, requested, turns, archiveFault, sent, payload,
                   todo, result, toolRuns, toolSaw>>
    /\ UNCHANGED cacheVars

\* lines 54-77: the second control message, the chunk size check, and the
\* creation of tmp_dir and tar_file; the receive loop is entered when
\* received (0) < metadata.length
RecvConfig(s) ==
    /\ pc[s] = "AWAIT_CONFIG"
    /\ \/ /\ Disconnected(s)
          /\ UNCHANGED config
       \/ \E k \in ConfigMsgs :
            /\ config' = [config EXCEPT ![s] = k]
            /\ IF DecodeError(k) # "ok"
               THEN DecodeFailed(s, DecodeError(k))
               ELSE IF ChunkTooBig(metadata[s])
               THEN Close(s, "CHUNK_SIZE_TOO_BIG")
               ELSE /\ work' = [work EXCEPT ![s] = EmptyWork]
                    /\ pc' = [pc EXCEPT ![s] =
                                IF 0 < metadata[s].length THEN "RECEIVING"
                                ELSE "EXTRACT_OUTER"]
                    /\ UNCHANGED <<closeCode, fault, link>>
    /\ UNCHANGED <<metadata, received, staged, requested, turns, archiveFault, sent,
                   payload, todo, result, toolRuns, toolSaw>>
    /\ UNCHANGED cacheVars

\* ------------------------------------------------------------------ receive
\* lines 78-85: one turn of `while received < metadata.length`; the client
\* chooses the length of each message, which is not compared with chunkSize
\* nor with the bytes still missing
RecvChunk(s, chunks) ==
    /\ pc[s] = "RECEIVING"
    /\ received[s] < metadata[s].length
    /\ requested' = [requested EXCEPT ![s] = TRUE]
    /\ \/ /\ Disconnected(s)
          /\ UNCHANGED <<received, staged, turns>>
       \/ \E n \in chunks :
            /\ staged' = [staged EXCEPT ![s] = @ + n]
            /\ received' = [received EXCEPT ![s] = @ + n]
            /\ turns' = [turns EXCEPT ![s] = 1 - @]
            /\ pc' = [pc EXCEPT ![s] =
                        IF received[s] + n < metadata[s].length THEN "RECEIVING"
                        ELSE "EXTRACT_OUTER"]
            /\ UNCHANGED <<closeCode, fault, work, link>>
    /\ UNCHANGED <<metadata, config, archiveFault, sent, payload, todo, result,
                   toolRuns, toolSaw>>
    /\ UNCHANGED cacheVars

\* ------------------------------------------------------------------ extract
\* the archives n staged bytes can hold: tarfile.open raises ReadError
\* ("empty file") on no bytes at all
HeldBy(outers, n) == {o \in outers : n = 0 => o.fault = "ReadError"}

\* tmp_dir after the outer archive is extracted (lines 95-97)
OuterExtracted(o) ==
    [exists |-> TRUE,
     files |-> DOMAIN o.tars \cup (IF o.loose THEN {LooseName} ELSE {}),
     dirs |-> <<>>]

\* lines 86-100 and 123-132: extraction of the outer archive and
\* os.listdir(tmp_dir)
ExtractOuter(s, outers) ==
    /\ pc[s] = "EXTRACT_OUTER"
    /\ \E o \in HeldBy(outers, staged[s]) :
         /\ payload' = [payload EXCEPT ![s] = o]
         /\ IF o.fault = "ok"
            THEN /\ work' = [work EXCEPT ![s] = OuterExtracted(o)]
                 /\ todo' = [todo EXCEPT ![s] =
                               {n \in OuterExtracted(o).files : EndsWithTar(n)}]
                 /\ pc' = [pc EXCEPT ![s] =
                             IF \E n \in OuterExtracted(o).files : EndsWithTar(n)
                             THEN "EXTRACT_LAYERS" ELSE "SCAN_ENSURE"]
                 /\ UNCHANGED <<closeCode, fault, archiveFault, link>>
            ELSE /\ archiveFault' = [archiveFault EXCEPT ![s] =
                                       [where |-> "outer", exc |-> o.fault]]
                 /\ IF BinaryCaught(o.fault)
                    THEN Close(s, "BINARY_CORRUPTED")
                    ELSE Raise(s, o.fault)
                 /\ UNCHANGED todo
    /\ UNCHANGED <<metadata, config, received, staged, requested, turns, sent, result,
                   toolRuns, toolSaw>>
    /\ UNCHANGED cacheVars

\* the layer directories after `file` was extracted into ReplaceTar(file)
LayerDirs(dirs, file, members) ==
    IF ~DirTouched(members) THEN dirs
    ELSE [d \in DOMAIN dirs \cup {ReplaceTar(file)} |->
            (IF d \in DOMAIN dirs THEN dirs[d] ELSE {})
              \cup (IF d = ReplaceTar(file)
                    THEN {<<file, i>> : i \in Extracted(members)} ELSE {})]

\* lines 100-121 and 123-132: one turn of the loop over os.listdir(tmp_dir)
\* for a name ending in '.tar'
ExtractLayer(s) ==
    /\ pc[s] = "EXTRACT_LAYERS"
    /\ \E file \in todo[s] :
         LET members == payload[s].tars[file]
         IN IF Raised(members) = "ok" \/ InnerCaught(Raised(members))
            THEN /\ work' = [work EXCEPT ![s] =
                               [exists |-> TRUE,
                                files |-> work[s].files \ {file},
                                dirs |-> LayerDirs(work[s].dirs, file, members)]]
                 /\ todo' = [todo EXCEPT ![s] = @ \ {file}]
                 /\ pc' = [pc EXCEPT ![s] =
                             IF todo[s] = {file} THEN "SCAN_ENSURE"
                             ELSE "EXTRACT_LAYERS"]
                 /\ UNCHANGED <<closeCode, fault, archiveFault, link>>
            ELSE /\ archiveFault' = [archiveFault EXCEPT ![s] =
                                       [where |-> "inner", exc |-> Raised(members)]]
                 /\ IF BinaryCaught(Raised(members))
                    THEN Close(s, "BINARY_CORRUPTED")
                    ELSE Raise(s, Raised(members))
                 /\ UNCHANGED todo
    /\ UNCHANGED <<metadata, config, received, staged, requested, turns, sent, payload,
                   result, toolRuns, toolSaw>>
    /\ UNCHANGED cacheVars

\* ------------------------------------------------------ the agent binary
\* the download a new pull_latest_wss_agent call runs as
FreeFetch == CHOOSE f \in Fetches :
                 fetch[f].pc = "idle" /\ \A g \in Fetches : fetch[g].pc = "idle" => f <= g

\* a call of pull_latest_wss_agent begins, in a thread of its own (owner 0,
\* lines 46-50) or in the calling session (line 60)
StartFetch(owner) ==
    fetch' = [fetch EXCEPT ![FreeFetch] = [IdleFetch EXCEPT !.pc = "start", !.owner = owner]]

\* line 80: tmp_file = tempfile.NamedTemporaryFile(delete=False)
FetchCreate(f) ==
    /\ fetch[f].pc = "start"
    /\ fetch' = [fetch EXCEPT ![f].pc = "request"]
    /\ tmpPath' = [tmpPath EXCEPT ![f] = TRUE]
    /\ UNCHANGED <<canonical, stale>>
    /\ UNCHANGED sessionVars

\* lines 95-98: the except branch: os.unlink(tmp_file.name), RuntimeError
FetchFailed(f) ==
    /\ fetch' = [fetch EXCEPT ![f].pc = "failed"]
    /\ tmpPath' = [tmpPath EXCEPT ![f] = FALSE]
    /\ UNCHANGED <<canonical, stale>>

\* lines 81-83: requests.get and res.raise_for_status()
FetchRequest(f) ==
    /\ fetch[f].pc = "request"
    /\ \/ /\ fetch' = [fetch EXCEPT ![f].pc = "stream"]
          /\ UNCHANGED <<canonical, stale, tmpPath>>
       \/ FetchFailed(f)
    /\ UNCHANGED sessionVars

\* lines 85-86: one chunk of res.iter_content goes to tmp_file.write().
\* tmp_file is a buffered writer: after the call the bytes on disk are some
\* prefix of what was written, no shorter than before.
FetchWrite(f) ==
    /\ fetch[f].pc = "stream"
    /\ fetch[f].wrote < MaxDownload
    /\ \/ \E d \in fetch[f].disk..(fetch[f].wrote + 1) :
            /\ fetch' = [fetch EXCEPT ![f].wrote = @ + 1, ![f].disk = d]
            /\ UNCHANGED <<canonical, stale, tmpPath>>
       \/ FetchFailed(f)
    /\ UNCHANGED sessionVars

\* a move that does not replace a jar another download has put there
FetchMoveFirstWins(f) ==
    /\ fetch[f].pc = "stream"
    /\ \/ /\ fetch' = [fetch EXCEPT ![f].pc = "moved"]
          /\ canonical' = IF canonical \subseteq {0} THEN {f} ELSE canonical
          /\ stale' = FALSE
          /\ tmpPath' = [tmpPath EXCEPT ![f] = FALSE]
       \/ FetchFailed(f)
    /\ UNCHANGED sessionVars

\* line 90: shutil.move(src=tmp_file.name, dst=wss_agent_path), a rename:
\* the canonical path names the downloaded file, with the modification time
\* of its last write; tmp_file is still open and holds its buffer.  A move
\* that fails leaves both names as they were.
FetchMove(f) ==
    /\ fetch[f].pc = "stream"
    /\ \/ /\ fetch' = [fetch EXCEPT ![f].pc = "moved"]
          /\ canonical' = {f}
          /\ stale' = FALSE
          /\ tmpPath' = [tmpPath EXCEPT ![f] = FALSE]
       \/ FetchFailed(f)
    /\ UNCHANGED sessionVars

\* line 91: tmp_file.close() writes the buffer out.  When bytes are still
\* in the buffer the write may fail (no space left): the except branch of
\* lines 95-98 is entered with the file already renamed, its
\* os.unlink(tmp_file.name) raises FileNotFoundError, and the canonical path
\* keeps naming the file without those bytes.
FetchClose(f) ==
    /\ fetch[f].pc = "moved"
    /\ \/ fetch' = [fetch EXCEPT ![f].pc = "done", ![f].disk = fetch[f].wrote]
       \/ /\ fetch[f].disk < fetch[f].wrote
          /\ fetch' = [fetch EXCEPT ![f].pc = "lost"]
    /\ UNCHANGED <<canonical, stale, tmpPath>>
    /\ UNCHANGED sessionVars

\* the canonical file grows older than 24 hours
Tick ==
    /\ canonical # {}
    /\ ~stale
    /\ stale' = TRUE
    /\ UNCHANGED <<canonical, fetch, tmpPath>>
    /\ UNCHANGED sessionVars

\* --------------------------------------------------------------------- scan
\* every present file taken for older than the threshold
OlderThanThresholdAlways == TRUE

\* line 42: modification_date < now - timedelta(hours=24)
OlderThanThreshold == stale

\* line 135 and update_or_download_agent (lines 39-62), called by
\* get_wss_agent_hardlink (line 66)
EnsureFresh(s) ==
    /\ pc[s] = "SCAN_ENSURE"
    /\ IF canonical = {}
       THEN /\ \E f \in Fetches : fetch[f].pc = "idle"
            /\ StartFetch(s)
            /\ pc' = [pc EXCEPT ![s] = "SCAN_FETCH"]
       ELSE /\ IF OlderThanThreshold
               THEN /\ \E f \in Fetches : fetch[f].pc = "idle"
                    /\ StartFetch(0)
               ELSE UNCHANGED fetch
            /\ pc' = [pc EXCEPT ![s] = "SCAN_LINK"]
    /\ UNCHANGED <<metadata, config, received, staged, requested, turns, closeCode, fault,
                   archiveFault, sent, payload, work, todo, result, toolRuns,
                   toolSaw, link>>
    /\ UNCHANGED <<canonical, stale, tmpPath>>

\* the except of line 61 taking every failure of the download
FetchReturnSwallowing(s) ==
    /\ pc[s] = "SCAN_FETCH"
    /\ \E f \in Fetches :
         /\ fetch[f].owner = s
         /\ fetch[f].pc \in {"done", "failed", "lost"}
    /\ pc' = [pc EXCEPT ![s] = "SCAN_LINK"]
    /\ UNCHANGED <<closeCode, fault, work, link>>
    /\ UNCHANGED <<metadata, config, received, staged, requested, turns, archiveFault, sent,
                   payload, todo, result, toolRuns, toolSaw>>
    /\ UNCHANGED cacheVars

\* lines 57-62: the blocking pull_latest_wss_agent call returns or raises
\* (RuntimeError, or the FileNotFoundError of its except branch), which
\* `except requests.exceptions.HTTPError` lets pass
FetchReturn(s) ==
    /\ pc[s] = "SCAN_FETCH"
    /\ \E f \in Fetches :
         /\ fetch[f].owner = s
         /\ fetch[f].pc \in {"done", "failed", "lost"}
         /\ IF fetch[f].pc = "done"
            THEN /\ pc' = [pc EXCEPT ![s] = "SCAN_LINK"]
                 /\ UNCHANGED <<closeCode, fault, work, link>>
            ELSE Raise(s, IF fetch[f].pc = "failed" THEN "RuntimeError"
                          ELSE "FileNotFoundError")
    /\ UNCHANGED <<metadata, config, received, staged, requested, turns, archiveFault, sent,
                   payload, todo, result, toolRuns, toolSaw>>
    /\ UNCHANGED cacheVars

\* lines 70-73: os.link(src=paths.wss_agent_path, dst=wss_agent_hardlink_path)
LinkAgent(s) ==
    /\ pc[s] = "SCAN_LINK"
    /\ IF canonical = {}
       THEN Raise(s, "FileNotFoundError")
       ELSE /\ link' = [link EXCEPT ![s] = canonical]
            /\ pc' = [pc EXCEPT ![s] = "SCAN_RUN"]
            /\ UNCHANGED <<closeCode, fault, work>>
    /\ UNCHANGED <<metadata, config, received, staged, requested, turns, archiveFault, sent,
                   payload, todo, result, toolRuns, toolSaw>>
    /\ UNCHANGED cacheVars

\* what a reader of file f finds
Seen(f) == IF Complete(f) THEN "complete" ELSE "truncated"

\* lines 136-141 and _scan_component: the agent is run on tmp_dir from the
\* hard link; its exit status and output are the agent's to choose.  The
\* launch itself may fail (no java, no configuration file to append to).
RunScan(s, results) ==
    /\ pc[s] = "SCAN_RUN"
    /\ \/ \E r \in results :
            /\ result' = [result EXCEPT ![s] = r]
            /\ toolRuns' = [toolRuns EXCEPT ![s] = TRUE]
            /\ toolSaw' = [toolSaw EXCEPT ![s] = Seen(CHOOSE f \in link[s] : TRUE)]
            /\ pc' = [pc EXCEPT ![s] = "SCAN_UNLINK"]
            /\ UNCHANGED <<closeCode, fault, work, link>>
       \/ /\ Raise(s, "OSError")
          /\ UNCHANGED <<result, toolRuns, toolSaw>>
    /\ UNCHANGED <<metadata, config, received, staged, requested, turns, archiveFault, sent,
                   payload, todo>>
    /\ UNCHANGED cacheVars

\* line 143 left out: the link stays until tmp_dir is removed
UnlinkAgentSkipped(s) ==
    /\ pc[s] = "SCAN_UNLINK"
    /\ pc' = [pc EXCEPT ![s] = "SEND_CODE"]
    /\ UNCHANGED <<metadata, config, received, staged, requested, turns, closeCode, fault,
                   archiveFault, sent, payload, work, todo, result, toolRuns,
                   toolSaw, link>>
    /\ UNCHANGED cacheVars

\* line 143: os.unlink(wss_agent_hardlink_path); lines 145-154 build the
\* response from `result`
UnlinkAgent(s) ==
    /\ pc[s] = "SCAN_UNLINK"
    /\ link' = [link EXCEPT ![s] = {}]
    /\ pc' = [pc EXCEPT ![s] = "SEND_CODE"]
    /\ UNCHANGED <<metadata, config, received, staged, requested, turns, closeCode, fault,
                   archiveFault, sent, payload, work, todo, result, toolRuns,
                   toolSaw>>
    /\ UNCHANGED cacheVars

\* ------------------------------------------------------------------ respond
\* line 156: await ws.send_text(str(result.returncode))
SendCode(s) ==
    /\ pc[s] = "SEND_CODE"
    /\ sent' = [sent EXCEPT ![s] = Append(@, CodeMessage(result[s]))]
    /\ pc' = [pc EXCEPT ![s] = "SEND_RESULT"]
    /\ UNCHANGED <<metadata, config, received, staged, requested, turns, closeCode, fault,
                   archiveFault, payload, work, todo, result, toolRuns,
                   toolSaw, link>>
    /\ UNCHANGED cacheVars

\* line 157: await ws.send_text(json.dumps(dataclasses.asdict(res))), then
\* the end of the `with` block and of on_websocket
SendResult(s) ==
    /\ pc[s] = "SEND_RESULT"
    /\ sent' = [sent EXCEPT ![s] = Append(@, ResultMessage(result[s]))]
    /\ Finish(s, "CLOSED", "none", "none", "end")
    /\ UNCHANGED <<metadata, config, received, staged, requested, turns, archiveFault,
                   payload, todo, result, toolRuns, toolSaw>>
    /\ UNCHANGED cacheVars

\* ------------------------------------------------------------ specification
SessionStep(s, env) ==
    \/ RecvMetadata(s, env.metas)
    \/ RecvConfig(s)
    \/ RecvChunk(s, env.chunks)
    \/ ExtractOuter(s, env.outers)
    \/ ExtractLayer(s)
    \/ EnsureFresh(s)
    \/ FetchReturn(s)
    \/ LinkAgent(s)
    \/ RunScan(s, env.results)
    \/ UnlinkAgent(s)
    \/ SendCode(s)
    \/ SendResult(s)

FetchStep(f) ==
    \/ FetchCreate(f)
    \/ FetchRequest(f)
    \/ FetchWrite(f)
    \/ FetchMove(f)
    \/ FetchClose(f)

\* The environment's choices are drawn from sets the specifications fix:
\* the metadata messages, the outer archives and the agent's results.

\* one well-formed transfer of one byte or more
PlainMetas == {m \in MetadataMsgs : m.kind = "valid" /\ m.length = 1 /\ m.chunkSize = 1}

\* no inner archive or one, of one member; and every broken outer archive
PlainOuters ==
    {o \in Outers : /\ ~o.loose
                    /\ DOMAIN o.tars \subseteq {LayerA}
                    /\ \A n \in DOMAIN o.tars : Len(o.tars[n]) = 1}

\* a success and a failure
PlainResults ==
    {r \in Results : /\ r.stdout = <<"o">>
                     /\ r.stderr = <<"e">>
                     /\ r.returncode \in {0, 1}}

\* every length of a payload message, the overlong ones too
Chunks == 0..MaxChunk

NextWith(env) ==
    \/ \E s \in Sessions : SessionStep(s, env)
    \/ \E f \in Fetches : FetchStep(f)
    \/ Tick

\* every control message and every chunking
Next ==
    NextWith([metas |-> MetadataMsgs, chunks |-> Chunks,
              outers |-> PlainOuters, results |-> PlainResults])
Spec == Init /\ [][Next]_vars

\* every outer archive
NextIngest ==
    NextWith([metas |-> PlainMetas, chunks |-> {1},
              outers |-> Outers, results |-> PlainResults])
SpecIngest == Init /\ [][NextIngest]_vars

\* every result of the agent
NextScan ==
    NextWith([metas |-> PlainMetas, chunks |-> {1},
              outers |-> PlainOuters, results |-> Results])
SpecScan == Init /\ [][NextScan]_vars

\* two sessions at once, which on_websocket being a coroutine and
\* pull_latest_wss_agent running in threads allow: each session with a
\* well-formed archive of inner archives whose members all extract
PairOuters ==
    {o \in ValidOuters : /\ ~o.loose
                         /\ LayerA \in DOMAIN o.tars
                         /\ \A n \in DOMAIN o.tars : o.tars[n] = <<"ok">>}

PairResults == {r \in PlainResults : r.returncode = 0}

NextPair ==
    \/ \E s \in AllSessions :
         SessionStep(s, [metas |-> PlainMetas, chunks |-> {1},
                         outers |-> PairOuters, results |-> PairResults])
    \/ \E f \in Fetches : FetchStep(f)
    \/ Tick
SpecPair == Init /\ [][NextPair]_vars

\* A session under the conditions of progress: the peer answers every
\* wait with a message (an empty one, too) or a disconnect, each statement
\* of on_websocket and the agent it runs come to their end, and so does
\* every step of a download.  Nothing is required of the clock.
EmptyOrOne == {0, 1}

NextLive ==
    NextWith([metas |-> PlainMetas, chunks |-> EmptyOrOne,
              outers |-> PlainOuters, results |-> PlainResults])

Fairness ==
    /\ \A s \in Sessions :
         WF_vars(SessionStep(s, [metas |-> PlainMetas, chunks |-> EmptyOrOne,
                                 outers |-> PlainOuters, results |-> PlainResults]))
    /\ \A f \in Fetches : WF_vars(FetchStep(f))

SpecLive == Init /\ [][NextLive]_vars /\ Fairness

\* ================================================================ claims
Ended(s) == pc[s] \in {"CLOSED", "ABORTED"}
BadKinds == MsgKinds \ {"valid"}

\* C1: a session whose two control messages decode and whose metadata has
\* chunkSize > length is closed with CHUNK_SIZE_TOO_BIG, and a session closed
\* with that code has called ws.receive_data() not once and staged no byte.
C1_ChunkSizeTooBig ==
    \A s \in Sessions :
        /\ (/\ metadata[s].kind = "valid"
            /\ config[s] = "valid"
            /\ metadata[s].chunkSize > metadata[s].length)
               => (/\ pc[s] = "ABORTED"
                   /\ closeCode[s] = "CHUNK_SIZE_TOO_BIG"
                   /\ fault[s] = "none")
        /\ closeCode[s] = "CHUNK_SIZE_TOO_BIG"
               => (/\ ~requested[s]
                   /\ staged[s] = 0
                   /\ ~work[s].exists
                   /\ metadata[s].chunkSize > metadata[s].length)

C1_Witness ==
    \E s \in Sessions :
        /\ closeCode[s] = "CHUNK_SIZE_TOO_BIG"
        /\ metadata[s].chunkSize = metadata[s].length + 1

\* C2: every bad control message (not JSON, JSON of the wrong shape or with
\* a field of the wrong type, a required field missing) ends the session
\* with the close code CONTRACT_VIOLATION and with nothing else.
C2_BadControlMessage ==
    \A s \in Sessions :
        (metadata[s].kind \in BadKinds \/ config[s] \in BadKinds)
            => (/\ pc[s] = "ABORTED"
                /\ closeCode[s] = "CONTRACT_VIOLATION"
                /\ fault[s] = "none")

\* C3: a session whose outer payload is no valid archive stream is closed
\* with BINARY_CORRUPTED, and has then received exactly metadata.length
\* bytes, whatever the lengths of the client's messages.
C3_CorruptedAtExactlyLength ==
    \A s \in Sessions :
        payload[s].fault \in {"ReadError", "UnicodeDecodeError"}
            => (/\ closeCode[s] = "BINARY_CORRUPTED"
                /\ received[s] = metadata[s].length)

\* a name without its trailing '.tar'
StripSuffix(name) == SubSeq(name, 1, Len(name) - 1)

\* the session has left the loops of lines 95-121 with every inner archive
\* gone through
Ingested(s) ==
    /\ payload[s].fault = "ok"
    /\ work[s].exists
    /\ todo[s] = {}
    /\ pc[s] \notin {"EXTRACT_OUTER", "EXTRACT_LAYERS"}

\* the members of inner archive `file` found in layer directory d
MembersIn(s, d, file) ==
    IF d \in DOMAIN work[s].dirs
    THEN {m \in work[s].dirs[d] : m[1] = file}
    ELSE {}

\* C4: after ingestion of a well-formed archive, each inner archive has its
\* members in the one directory named as the archive without its trailing
\* '.tar', distinct inner archives have distinct directories, and no
\* top-level name ending in '.tar' is left.  (Stated for inner archives
\* whose members all extract, and that have one member at least.)
C4_OneDirectoryPerLayer ==
    \A s \in Sessions :
        Ingested(s) =>
            /\ \A file \in DOMAIN payload[s].tars :
                 (Len(payload[s].tars[file]) > 0 /\ Raised(payload[s].tars[file]) = "ok")
                     => /\ StripSuffix(file) \in DOMAIN work[s].dirs
                        /\ MembersIn(s, StripSuffix(file), file)
                             = {<<file, i>> : i \in 1..Len(payload[s].tars[file])}
                        /\ \A d \in DOMAIN work[s].dirs :
                             d # StripSuffix(file) => MembersIn(s, d, file) = {}
            /\ \A n \in work[s].files : ~EndsWithTar(n)

\* C5: when one member of an inner archive raises a tolerated fault (a
\* duplicate, a link whose target is missing), every other member of that
\* archive is extracted, those after the faulting one too, the archive file
\* is removed and the session goes on to the scan.
C5_OnlyFaultingMemberSkipped ==
    \A s \in Sessions :
        Ingested(s) =>
            \A file \in DOMAIN payload[s].tars :
                LET members == payload[s].tars[file]
                    faulty == {i \in 1..Len(members) : members[i] # "ok"}
                IN (Cardinality(faulty) = 1
                      /\ \A i \in faulty : members[i] \in {"StreamError", "KeyError"})
                     => /\ file \notin work[s].files
                        /\ \A i \in (1..Len(members)) \ faulty :
                             <<file, i>> \in MembersIn(s, ReplaceTar(file), file)

\* C6 as stated: a session is closed with BINARY_CORRUPTED only by a fault
\* of the outer stream, never by a fault raised while an inner archive is
\* read.
C6_CorruptedOnlyByOuter ==
    \A s \in Sessions :
        closeCode[s] = "BINARY_CORRUPTED" => archiveFault[s].where = "outer"

\* C6 as amended: BINARY_CORRUPTED is the close code of a ReadError or
\* UnicodeDecodeError raised while the outer stream or an inner archive is
\* read; the two tolerated member faults (StreamError, KeyError) of an inner
\* archive never end the session, with that code or otherwise.
C6_CorruptedByReadFault ==
    \A s \in Sessions :
        /\ closeCode[s] = "BINARY_CORRUPTED"
              => /\ archiveFault[s].where \in {"outer", "inner"}
                 /\ archiveFault[s].exc \in {"ReadError", "UnicodeDecodeError"}
        /\ archiveFault[s].where = "inner"
              => /\ archiveFault[s].exc \notin {"StreamError", "KeyError"}
                 /\ closeCode[s] = "BINARY_CORRUPTED"
        /\ (/\ payload[s].fault = "ok"
            /\ \A file \in DOMAIN payload[s].tars :
                 Raised(payload[s].tars[file]) \in {"ok", "StreamError", "KeyError"})
              => /\ closeCode[s] # "BINARY_CORRUPTED"
                 /\ archiveFault[s].where = "none"

C6_Witness ==
    \E s \in Sessions :
        /\ closeCode[s] = "BINARY_CORRUPTED"
        /\ archiveFault[s] = [where |-> "inner", exc |-> "ReadError"]
        /\ \E file \in DOMAIN payload[s].tars :
             /\ file \notin todo[s]
             /\ Raised(payload[s].tars[file]) = "KeyError"

\* the number a decimal string denotes
DigitValue(c) ==
    CASE c = "0" -> 0 [] c = "1" -> 1 [] c = "2" -> 2 [] c = "3" -> 3
      [] c = "4" -> 4 [] c = "5" -> 5 [] c = "6" -> 6 [] c = "7" -> 7
      [] c = "8" -> 8 [] c = "9" -> 9

RECURSIVE Unsigned(_)
Unsigned(str) ==
    IF Len(str) = 0 THEN 0
    ELSE 10 * Unsigned(SubSeq(str, 1, Len(str) - 1)) + DigitValue(str[Len(str)])

ParseInt(str) ==
    IF Len(str) > 0 /\ str[1] = "-" THEN 0 - Unsigned(Tail(str)) ELSE Unsigned(str)

C8_ScanResultOfExitCode ==
    \A s \in Sessions :
        toolRuns[s] =>
            /\ pc[s] # "ABORTED"
            /\ closeCode[s] = "none"
            /\ fault[s] = "none"
            /\ Len(sent[s]) = 2 =>
                 /\ (Head(sent[s][2].body) = "true") <=> (result[s].returncode = 0)
                 /\ Head(sent[s][2].body) \in {"true", "false"}
                 /\ Tail(sent[s][2].body) =
                      IF result[s].returncode = 0 THEN result[s].stdout
                      ELSE result[s].stderr \o result[s].stdout

C8_Witness ==
    \E s \in Sessions :
        /\ Len(sent[s]) = 2
        /\ result[s].returncode # 0
        /\ result[s].stdout # <<>>
        /\ result[s].stderr # <<>>

\* C9: the canonical path never names a file with bytes of its download
\* still to be written out, no session's hard link names such a file, and
\* the agent is never run from one.
C9_NeverTruncated ==
    /\ \A f \in canonical : Complete(f)
    /\ \A s \in Sessions :
         /\ \A f \in link[s] : Complete(f)
         /\ toolSaw[s] # "truncated"

\* C10: a session that has ended, however it ended, has no tmp_dir left and
\* nothing of what tmp_dir held (the extracted files, the hard link).
C10_WorkspaceGone ==
    \A s \in Sessions :
        Ended(s) => /\ work[s] = NoWork
                    /\ link[s] = {}

C10_Witness ==
    \E s \in Sessions :
        /\ pc[s] = "ABORTED"
        /\ fault[s] = "RuntimeError"
        /\ payload[s].fault = "ok"

\* the positions where on_websocket waits for a message of the peer
Waiting == {"AWAIT_METADATA", "AWAIT_CONFIG", "RECEIVING"}

\* C11: a session ends by a disconnect only while it waits for a control
\* message or a payload chunk; it is then aborted with no close code and
\* nothing sent, its extraction and its scan have not begun (no archive
\* read, no download of its own, the agent not run), and it has made no
\* hard link of the agent.
C11_SilentAbort ==
    /\ [](\A s \in Sessions :
            fault[s] = "WebSocketDisconnected"
                => /\ pc[s] = "ABORTED"
                   /\ closeCode[s] = "none"
                   /\ sent[s] = <<>>
                   /\ payload[s] = NoPayload
                   /\ todo[s] = {}
                   /\ ~toolRuns[s]
                   /\ toolSaw[s] = "none"
                   /\ link[s] = {}
                   /\ \A f \in Fetches : fetch[f].owner # s)
    /\ [][\A s \in Sessions :
            (fault'[s] = "WebSocketDisconnected" /\ fault[s] = "none")
                => /\ pc[s] \in Waiting
                   /\ link[s] = {}
                   /\ work[s] \in {NoWork, EmptyWork}
                   /\ sent'[s] = sent[s]
                   /\ fetch' = fetch]_vars

C11_Witness ==
    \E s \in Sessions :
        /\ fault[s] = "WebSocketDisconnected"
        /\ received[s] > 0
        /\ received[s] < metadata[s].length

\* what the layer directories of tmp_dir hold once archive o is ingested
ExpectedDirs(o) ==
    LET touched == {file \in DOMAIN o.tars : DirTouched(o.tars[file])}
    IN [d \in {ReplaceTar(file) : file \in touched} |->
           UNION {{<<file, i>> : i \in Extracted(o.tars[file])}
                     : file \in {g \in touched : ReplaceTar(g) = d}}]

C13_StagedEqualsLength ==
    \A s \in Sessions :
        pc[s] = "EXTRACT_OUTER" => staged[s] = metadata[s].length

\* the bytes a reader of file f finds
Content(f) == IF f = 0 THEN MaxDownload ELSE fetch[f].disk

\* the hard link of a session keeps naming the file it was made for
LinkKeepsFile ==
    [][\A s \in AllSessions :
          (link[s] # {} /\ link'[s] # {}) => link'[s] = link[s]]_vars

\* C14: from the moment a session has its hard link until it unlinks it,
\* the link names one complete download whose bytes do not change, however
\* many downloads begin or end meanwhile.
C14_ReferencePinsVersion ==
    /\ [](\A s \in AllSessions : \A f \in link[s] : Complete(f))
    /\ [][\A s \in AllSessions :
            (link[s] # {} /\ link'[s] # {})
                => /\ link'[s] = link[s]
                   /\ \A f \in link[s] : Content(f)' = Content(f)]_vars

\* C15 as stated: the hard link of a session is only ever removed by the
\* session's own os.unlink at the end of the scan, whether the agent
\* returned 0, returned another exit code, or could not be run at all.
C15_UnlinkedBySession ==
    [][\A s \in Sessions :
          (link[s] # {} /\ link'[s] = {})
              => pc[s] = "SCAN_UNLINK" /\ pc'[s] = "SEND_CODE"]_vars

\* C15 as amended: when the agent has returned, with any exit code, the
\* next step of the session is its own os.unlink of the hard link, which
\* comes before anything is sent; when the agent could not be run, the
\* exception passes line 143 by and the hard link goes with tmp_dir as the
\* exception leaves the `with` block.  No ended session has a hard link.
C15_UnlinkedOrCleanedUp ==
    /\ [](\A s \in Sessions :
            /\ pc[s] \in {"SEND_CODE", "SEND_RESULT", "CLOSED"}
                  => link[s] = {} /\ toolRuns[s]
            /\ pc[s] = "SCAN_UNLINK" => link[s] # {} /\ toolRuns[s]
            /\ Ended(s) => link[s] = {})
    /\ [][\A s \in Sessions :
            /\ (~toolRuns[s] /\ toolRuns'[s]) => pc'[s] = "SCAN_UNLINK"
            /\ (link[s] # {} /\ link'[s] = {})
                  => \/ /\ pc[s] = "SCAN_UNLINK"
                        /\ pc'[s] = "SEND_CODE"
                        /\ work'[s] = work[s]
                     \/ /\ pc[s] = "SCAN_RUN"
                        /\ ~toolRuns'[s]
                        /\ pc'[s] = "ABORTED"
                        /\ fault'[s] = "OSError"
                        /\ work'[s] = NoWork]_vars

C15_Witness ==
    \E s \in Sessions :
        /\ pc[s] = "ABORTED"
        /\ fault[s] = "OSError"
        /\ ~toolRuns[s]
        /\ link[s] = {}

\* a download of a refresh thread (not of a session) that has failed
FailedRefresh(f) == fetch[f].owner = 0 /\ fetch[f].pc \in {"failed", "lost"}

\* C16: after a refresh thread's download has failed, at whatever point, the
\* canonical path does not name that download's file, no hard link does,
\* its temporary file is gone, and no session has been ended by the failure.
C16_FailedRefreshLeavesNoTrace ==
    \A f \in Fetches :
        FailedRefresh(f)
            => /\ f \notin canonical
               /\ ~tmpPath[f]
               /\ \A s \in Sessions :
                    /\ f \notin link[s]
                    /\ fault[s] \notin {"RuntimeError", "FileNotFoundError"}

\* the download session s waits for in update_or_download_agent
OwnFetch(s) == {f \in Fetches : fetch[f].owner = s}

\* C17: update_or_download_agent called with the canonical file absent
\* starts one download and waits for it; it returns only when the download
\* has succeeded, and the canonical file then exists, so os.link never finds
\* it missing; when the download fails the exception ends the session,
\* which has not run the agent and has sent nothing.
C17_AbsentFetchedOrFails ==
    /\ [](\A s \in Sessions :
            /\ pc[s] = "SCAN_LINK" => canonical # {}
            /\ pc[s] = "SCAN_FETCH" => Cardinality(OwnFetch(s)) = 1
            /\ fault[s] = "RuntimeError"
                  => /\ pc[s] = "ABORTED"
                     /\ \E f \in OwnFetch(s) : fetch[f].pc = "failed"
                     /\ ~toolRuns[s]
                     /\ sent[s] = <<>>
                     /\ closeCode[s] = "none"
                     /\ link[s] = {}
            /\ fault[s] = "FileNotFoundError"
                  => \E f \in OwnFetch(s) : fetch[f].pc = "lost")
    /\ [][\A s \in Sessions :
            /\ (pc[s] = "SCAN_ENSURE" /\ pc'[s] # pc[s] /\ canonical = {})
                  => /\ pc'[s] = "SCAN_FETCH"
                     /\ OwnFetch(s) = {}
            /\ (pc[s] = "SCAN_FETCH" /\ pc'[s] = "SCAN_LINK")
                  => /\ \E f \in OwnFetch(s) : fetch[f].pc = "done"
                     /\ canonical # {}
            /\ (pc[s] = "SCAN_FETCH" /\ pc'[s] = "ABORTED")
                  => \E f \in OwnFetch(s) : fetch[f].pc \in {"failed", "lost"}]_vars

C17_Witness ==
    \E s \in Sessions :
        /\ fault[s] = "RuntimeError"
        /\ canonical = {}
        /\ \E f \in OwnFetch(s) : fetch[f].pc = "failed" /\ fetch[f].wrote > 0

\* C18: update_or_download_agent called with the canonical file present
\* returns at once and leaves the canonical file as it is; when the file is
\* older than 24 hours it has started exactly one download, in a thread of
\* its own, and when the file is not, none.
C18_PresentNeverWaits ==
    [][\A s \in Sessions :
          (pc[s] = "SCAN_ENSURE" /\ pc'[s] # pc[s] /\ canonical # {})
              => /\ pc'[s] = "SCAN_LINK"
                 /\ canonical' = canonical
                 /\ stale' = stale
                 /\ tmpPath' = tmpPath
                 /\ OwnFetch(s)' = {}
                 /\ IF stale
                    THEN \E f \in Fetches :
                           /\ fetch[f].pc = "idle"
                           /\ fetch'[f].pc = "start"
                           /\ fetch'[f].owner = 0
                           /\ \A g \in Fetches \ {f} : fetch'[g] = fetch[g]
                    ELSE fetch' = fetch]_vars

C18_Witness ==
    \E s \in Sessions :
        /\ pc[s] = "SCAN_LINK"
        /\ canonical = {0}
        /\ stale
        /\ \E f \in Fetches : fetch[f].pc = "start" /\ fetch[f].owner = 0

\* a pull_latest_wss_agent call that has begun and not yet returned or raised
Running(f) == fetch[f].pc \in {"start", "request", "stream", "moved"}

Phase(p) ==
    CASE p = "AWAIT_METADATA" -> 1
      [] p = "AWAIT_CONFIG" -> 2
      [] p = "RECEIVING" -> 3
      [] p \in {"EXTRACT_OUTER", "EXTRACT_LAYERS"} -> 4
      [] p \in {"SCAN_ENSURE", "SCAN_FETCH", "SCAN_LINK", "SCAN_RUN", "SCAN_UNLINK"} -> 5
      [] p \in {"SEND_CODE", "SEND_RESULT"} -> 6
      [] p = "CLOSED" -> 7
      [] p = "ABORTED" -> 8

Position(p) ==
    CASE p = "EXTRACT_OUTER" -> 1
      [] p = "EXTRACT_LAYERS" -> 2
      [] p = "SCAN_ENSURE" -> 1
      [] p = "SCAN_FETCH" -> 2
      [] p = "SCAN_LINK" -> 3
      [] p = "SCAN_RUN" -> 4
      [] p = "SCAN_UNLINK" -> 5
      [] p = "SEND_CODE" -> 1
      [] p = "SEND_RESULT" -> 2
      [] OTHER -> 1

SessionState(s) ==
    <<pc[s], metadata[s], config[s], received[s], staged[s], requested[s], turns[s],
      closeCode[s], fault[s], archiveFault[s], sent[s], payload[s], work[s],
      todo[s], result[s], toolRuns[s], toolSaw[s], link[s]>>

\* C20: a session goes through AWAIT_METADATA, AWAIT_CONFIG, RECEIVING,
\* EXTRACTING, SCANNING, RESPONDING, CLOSED in this order: each step leads
\* on within the same state, to the state that follows, or to ABORTED (a
\* transfer of length 0 has nothing to receive and goes from AWAIT_CONFIG
\* to EXTRACTING); nothing is done a second time, only the receive loop and
\* the loop over the inner archives take a further message or archive; and
\* a session that is CLOSED or ABORTED changes no more.
C20_LinearOrder ==
    [][\A s \in Sessions :
          /\ Ended(s) => SessionState(s)' = SessionState(s)
          /\ pc'[s] # pc[s]
                => \/ pc'[s] = "ABORTED" /\ Phase(pc[s]) <= 5
                   \/ /\ Phase(pc'[s]) = Phase(pc[s])
                      /\ Position(pc'[s]) > Position(pc[s])
                   \/ /\ Phase(pc'[s]) = Phase(pc[s]) + 1
                      /\ pc'[s] \notin {"EXTRACT_LAYERS", "SEND_RESULT"}
                      /\ Position(pc'[s]) = 1
                   \/ /\ pc[s] = "AWAIT_CONFIG"
                      /\ pc'[s] = "EXTRACT_OUTER"
                      /\ metadata[s].length = 0
          /\ (pc'[s] = pc[s] /\ SessionState(s)' # SessionState(s))
                => \/ /\ pc[s] = "RECEIVING"
                      /\ received'[s] >= received[s]
                      /\ received'[s] < metadata[s].length
                   \/ /\ pc[s] = "EXTRACT_LAYERS"
                      /\ todo'[s] # todo[s]
                      /\ todo'[s] \subseteq todo[s]]_vars

C20_Witness ==
    \E s \in Sessions :
        /\ pc[s] = "CLOSED"
        /\ metadata[s].length > 1
        /\ staged[s] = metadata[s].length
        /\ DOMAIN payload[s].tars # {}

\* C21: every session comes to CLOSED or ABORTED when the peer answers each
\* wait with a message or a disconnect and the agent returns, whatever the
\* lengths of the payload messages, empty ones included.
C21_SessionEnds ==
    \A s \in Sessions : <>Ended(s)

\* a session that does not end stays in the receive loop for ever
OnlyReceiveLoopDiverges ==
    \A s \in Sessions : <>Ended(s) \/ <>[](pc[s] = "RECEIVING")

====
